---- MODULE Spec2Model ----
(***************************************************************************)
(* QuantumOracle (TP2425/TP6-AA-multiple-unknown-winners/oracle.py).       *)
(*                                                                         *)
(* Text is modelled as a sequence of character codes (ASCII), bytes as a   *)
(* sequence of numbers 0..255, so that Base64 decoding, UTF-8 decoding,    *)
(* int(), bin(), slicing and zfill() are each computed as the library      *)
(* computes them.  The codes used below:                                   *)
(*   '0'..'9' = 48..57   'A'..'Z' = 65..90   'a'..'z' = 97..122            *)
(*   '+' = 43   '-' = 45   '/' = 47   '=' = 61   '_' = 95   'b' = 98       *)
(*   '!' = 33   'x' = 120                                                  *)
(***************************************************************************)
EXTENDS Integers, Sequences, FiniteSets, TLC

VARIABLES
    written,          \* what the author of the config file encoded (never read by the oracle)
    config_file,      \* the configuration resource the constructor reads
    input_registers,  \* self.input_registers
    n_qubits,         \* self.n_qubits
    marked_states,    \* self.marked_states
    solutions,        \* self.solutions
    pc,               \* "new", "constructed" or "raised" (constructor outcome)
    raised,           \* the exception the constructor ended with, or "none"
    calls,            \* the last two apply_oracle() calls: what each emitted and raised
    answer            \* the last is_solution() call: its argument and return value

vars == <<written, config_file, input_registers, n_qubits, marked_states,
          solutions, pc, raised, calls, answer>>

\* ------------------------------------------------------------------ bounds
\* Largest n_qubits and largest register length.
MaxQubits == 2
\* Longest marked_states list in a config.
MaxStates == 2
\* Largest payload that appears in the lists of a config: every state of two
\* qubits, and payloads wider than one qubit.
MaxPayload == 3
\* Largest payload of a config holding a single marked state (four decimal digits,
\* so Base64 texts of one, two, three and four bytes all occur).
MaxValue == 1100
\* Largest measurement outcome handed to is_solution (an outcome is 0 or 1).
MaxOutcome == 1

\* ------------------------------------------------------------- arithmetic
RECURSIVE Pow2(_)
Pow2(k) == IF k <= 0 THEN 1 ELSE 2 * Pow2(k - 1)

Max(a, b) == IF a >= b THEN a ELSE b

Abs(v) == IF v < 0 THEN -v ELSE v

Range(s) == {s[i] : i \in 1..Len(s)}

\* The number a string of '0' and '1' stands for.
RECURSIVE StringValue(_)
StringValue(s) ==
    IF Len(s) = 0 THEN 0
    ELSE 2 * StringValue(SubSeq(s, 1, Len(s) - 1)) + (s[Len(s)] - 48)

\* All sequences over S of length at most k.
RECURSIVE SeqUpTo(_, _)
SeqUpTo(S, k) ==
    IF k <= 0 THEN {<<>>}
    ELSE LET shorter == SeqUpTo(S, k - 1)
         IN  shorter \cup {Append(s, e) : s \in {t \in shorter : Len(t) = k - 1}, e \in S}

\* ---------------------------------------------------------------- results
\* A library call either returns a value or raises.
Ok(v) == [err |-> "none", val |-> v]
Raise(e) == [err |-> e, val |-> <<>>]

\* ------------------------------------------- base64.b64decode (line 47)
\* The value of a character in the Base64 alphabet; 64 for a character outside it.
B64Value(c) ==
    IF c \in 65..90 THEN c - 65
    ELSE IF c \in 97..122 THEN c - 71
    ELSE IF c \in 48..57 THEN c + 4
    ELSE IF c = 43 THEN 62
    ELSE IF c = 47 THEN 63
    ELSE 64

\* binascii.a2b_base64 in its default (non-strict) mode, as b64decode calls it:
\* characters outside the alphabet are skipped, '=' ends the data once a group
\* of at least two characters is padded to four, and data that stops inside a
\* group raises binascii.Error.
RECURSIVE A2bLoop(_, _, _, _, _, _)
A2bLoop(s, i, quad_pos, leftchar, pads, out) ==
    IF i > Len(s)
    THEN IF quad_pos # 0 THEN Raise("binascii.Error") ELSE Ok(out)
    ELSE IF s[i] = 61
    THEN IF quad_pos >= 2 /\ quad_pos + pads + 1 >= 4
         THEN Ok(out)
         ELSE A2bLoop(s, i + 1, quad_pos, leftchar,
                      IF quad_pos >= 2 THEN pads + 1 ELSE pads, out)
    ELSE IF B64Value(s[i]) = 64
    THEN A2bLoop(s, i + 1, quad_pos, leftchar, pads, out)
    ELSE LET v == B64Value(s[i])
         IN  CASE quad_pos = 0 -> A2bLoop(s, i + 1, 1, v, 0, out)
               [] quad_pos = 1 ->
                    A2bLoop(s, i + 1, 2, v % 16, 0,
                            Append(out, (leftchar * 4 + v \div 16) % 256))
               [] quad_pos = 2 ->
                    A2bLoop(s, i + 1, 3, v % 4, 0,
                            Append(out, (leftchar * 16 + v \div 4) % 256))
               [] OTHER ->
                    A2bLoop(s, i + 1, 0, 0, 0,
                            Append(out, (leftchar * 64 + v) % 256))

b64decode(encoded_str) == A2bLoop(encoded_str, 1, 0, 0, 0, <<>>)

\* ------------------------------------------- bytes.decode("utf-8") (line 47)
\* ASCII bytes decode to themselves.  Above 127 the configs enumerated below
\* hold only the byte 255, which occurs in no UTF-8 encoding and raises.
utf8_decode(bytes) ==
    IF \E i \in 1..Len(bytes) : bytes[i] > 127
    THEN Raise("UnicodeDecodeError")
    ELSE Ok(bytes)

\* ------------------------------------------------------- int(text) (line 47)
IsSpace(c) == c \in (9..13) \cup (28..32)
IsDigit(c) == c \in 48..57

RECURSIVE LStrip(_)
LStrip(s) == IF Len(s) > 0 /\ IsSpace(s[1]) THEN LStrip(Tail(s)) ELSE s

RECURSIVE RStrip(_)
RStrip(s) ==
    IF Len(s) > 0 /\ IsSpace(s[Len(s)]) THEN RStrip(SubSeq(s, 1, Len(s) - 1)) ELSE s

\* Digits with single underscores between them.
ValidDigits(d) ==
    /\ Len(d) > 0
    /\ IsDigit(d[1])
    /\ IsDigit(d[Len(d)])
    /\ \A i \in 1..Len(d) : IsDigit(d[i]) \/ d[i] = 95
    /\ \A i \in 1..(Len(d) - 1) : ~(d[i] = 95 /\ d[i + 1] = 95)

RECURSIVE DigitsValue(_, _)
DigitsValue(d, acc) ==
    IF Len(d) = 0 THEN acc
    ELSE IF d[1] = 95 THEN DigitsValue(Tail(d), acc)
    ELSE DigitsValue(Tail(d), 10 * acc + (d[1] - 48))

int(text) ==
    LET t == RStrip(LStrip(text))
        signed == Len(t) > 0 /\ t[1] \in {43, 45}
        d == IF signed THEN Tail(t) ELSE t
    IN  IF ~ValidDigits(d) THEN Raise("ValueError")
        ELSE IF signed /\ t[1] = 45 THEN Ok(-DigitsValue(d, 0))
        ELSE Ok(DigitsValue(d, 0))

\* ---------------------------------------------------------- bin(v) (line 47)
RECURSIVE BinDigits(_)
BinDigits(v) ==
    IF v < 2 THEN <<48 + v>> ELSE Append(BinDigits(v \div 2), 48 + (v % 2))

\* "0b101" for 5, "-0b101" for -5.
bin(v) == (IF v < 0 THEN <<45>> ELSE <<>>) \o <<48, 98>> \o BinDigits(Abs(v))

\* s[1:], a slice that starts one character early.
SliceFrom1(s) == SubSeq(s, 2, Len(s))

\* s[2:]
SliceFrom2(s) == SubSeq(s, 3, Len(s))

\* ------------------------------------------------------ str.zfill (line 47)
Zeros(k) == [i \in 1..k |-> 48]

\* zfill that keeps only the last width characters of a longer string.
zfill_truncating(s, width) ==
    IF Len(s) > width THEN SubSeq(s, Len(s) - width + 1, Len(s))
    ELSE Zeros(width - Len(s)) \o s

zfill(s, width) ==
    IF Len(s) >= width THEN s
    ELSE IF Len(s) > 0 /\ s[1] \in {43, 45}
         THEN <<s[1]>> \o Zeros(width - Len(s)) \o Tail(s)
         ELSE Zeros(width - Len(s)) \o s

\* ------------------------------------------------ _decode_base64 (line 47)
decode_base64(encoded_str, n) ==
    LET bytes == b64decode(encoded_str)
    IN  IF bytes.err # "none" THEN bytes
        ELSE LET text == utf8_decode(bytes.val)
             IN  IF text.err # "none" THEN text
                 ELSE LET v == int(text.val)
                      IN  IF v.err # "none" THEN v
                          ELSE Ok(zfill(SliceFrom2(bin(v.val)), n))

\* ------------------------------------------------- _load_config (lines 29-35)
\* A comprehension that leaves out the entries that do not decode.
RECURSIVE decode_all_skipping(_, _)
decode_all_skipping(entries, n) ==
    IF Len(entries) = 0 THEN Ok(<<>>)
    ELSE LET first == decode_base64(entries[1], n)
             rest == decode_all_skipping(Tail(entries), n)
         IN  IF first.err # "none" THEN rest ELSE Ok(<<first.val>> \o rest.val)

\* The list comprehension of lines 33 and 34: the entries are decoded in order
\* and the first one that raises ends the comprehension.
RECURSIVE decode_all(_, _)
decode_all(entries, n) ==
    IF Len(entries) = 0 THEN Ok(<<>>)
    ELSE LET first == decode_base64(entries[1], n)
         IN  IF first.err # "none" THEN Raise(first.err)
             ELSE LET rest == decode_all(Tail(entries), n)
                  IN  IF rest.err # "none" THEN rest
                      ELSE Ok(<<first.val>> \o rest.val)

\* open() raises for a missing file, json.load for text that is not JSON;
\* then marked_states is decoded, then solutions.
load_config(file, n) ==
    IF file.kind = "missing" THEN Raise("FileNotFoundError")
    ELSE IF file.kind = "malformed" THEN Raise("json.JSONDecodeError")
    ELSE LET ms == decode_all(file.marked_states, n)
         IN  IF ms.err # "none" THEN ms
             ELSE LET ss == decode_all(file.solutions, n)
                  IN  IF ss.err # "none" THEN ss
                      ELSE Ok([marked_states |-> ms.val, solutions |-> ss.val])

\* --------------------------------------------------- __init__ (lines 15-17)
\* input_registers and n_qubits are stored as given; _load_config either
\* returns both lists or raises, and then the constructor raises too and no
\* object is bound.
Construct ==
    /\ pc = "new"
    /\ LET loaded == load_config(config_file, n_qubits)
       IN  IF loaded.err = "none"
           THEN /\ marked_states' = loaded.val.marked_states
                /\ solutions' = loaded.val.solutions
                /\ pc' = "constructed"
                /\ raised' = "none"
           ELSE /\ pc' = "raised"
                /\ raised' = loaded.err
                /\ UNCHANGED <<marked_states, solutions>>
    /\ UNCHANGED <<written, config_file, input_registers, n_qubits, calls, answer>>

\* ------------------------------------------------------ writing a config
\* str(v) for an integer v.
RECURSIVE DecimalDigits(_)
DecimalDigits(v) ==
    IF v < 10 THEN <<48 + v>> ELSE Append(DecimalDigits(v \div 10), 48 + (v % 10))

str(v) == (IF v < 0 THEN <<45>> ELSE <<>>) \o DecimalDigits(Abs(v))

\* The Base64 character of a 6-bit value.
B64Char(k) ==
    IF k < 26 THEN 65 + k
    ELSE IF k < 52 THEN 71 + k
    ELSE IF k < 62 THEN k - 4
    ELSE IF k = 62 THEN 43
    ELSE 47

\* Standard Base64 of a byte sequence, '=' padded.
RECURSIVE b64encode(_)
b64encode(bytes) ==
    IF Len(bytes) = 0 THEN <<>>
    ELSE IF Len(bytes) = 1
    THEN <<B64Char(bytes[1] \div 4), B64Char((bytes[1] % 4) * 16), 61, 61>>
    ELSE IF Len(bytes) = 2
    THEN <<B64Char(bytes[1] \div 4),
           B64Char((bytes[1] % 4) * 16 + bytes[2] \div 16),
           B64Char((bytes[2] % 16) * 4), 61>>
    ELSE <<B64Char(bytes[1] \div 4),
           B64Char((bytes[1] % 4) * 16 + bytes[2] \div 16),
           B64Char((bytes[2] % 16) * 4 + bytes[3] \div 64),
           B64Char(bytes[3] % 64)>> \o b64encode(SubSeq(bytes, 4, Len(bytes)))

\* What a config author can put in a list, and the entry it becomes:
\*   "int"     Base64(str(v)), the documented form
\*   "plus"    Base64("+" str(v)), an integer literal with a sign
\*   "junk"    Base64(str(v)) with a '!' after its first character
\*   "nopad"   Base64(str(v)) with its '=' padding removed
\*   "text"    Base64("x"), not an integer literal
\*   "byte255" Base64 of the single byte 255, not UTF-8
Payload(kind, v) == [kind |-> kind, v |-> v]

Entry(p) ==
    LET e == b64encode(str(p.v))
    IN  CASE p.kind = "int" -> e
          [] p.kind = "plus" -> b64encode(<<43>> \o str(p.v))
          [] p.kind = "junk" -> <<e[1], 33>> \o Tail(e)
          [] p.kind = "nopad" -> SelectSeq(e, LAMBDA c : c # 61)
          [] p.kind = "text" -> b64encode(<<120>>)
          [] OTHER -> b64encode(<<255>>)

Entries(ps) == [i \in 1..Len(ps) |-> Entry(ps[i])]

ConfigOf(w) ==
    IF w.kind = "json"
    THEN [kind |-> "json", marked_states |-> Entries(w.marked_states),
          solutions |-> Entries(w.solutions)]
    ELSE [kind |-> w.kind, marked_states |-> <<>>, solutions |-> <<>>]

Json(ms, ss) == [kind |-> "json", marked_states |-> ms, solutions |-> ss]
NoJson(kind) == [kind |-> kind, marked_states |-> <<>>, solutions |-> <<>>]

\* The register of length len: wires 0 .. len-1.
Register(len) == [i \in 1..len |-> i - 1]

\* ------------------------------------------------- loading configurations
\* The payloads of the lists: 0..MaxPayload in the documented form, the
\* negative payload -1, and one of each other form.
ListPayloads ==
    {Payload("int", v) : v \in (-1)..MaxPayload}
        \cup {Payload(k, 3) : k \in {"plus", "junk", "nopad", "text", "byte255"}}

LoadConfigs ==
    {NoJson("missing"), NoJson("malformed")}
        \cup {Json(ms, ss) : ms \in SeqUpTo(ListPayloads, MaxStates),
                             ss \in SeqUpTo(ListPayloads, 1)}
        \cup {Json(<<Payload("int", v)>>, <<>>) : v \in 0..MaxValue}

InitLoad ==
    /\ written \in LoadConfigs
    /\ config_file = ConfigOf(written)
    /\ n_qubits \in 0..MaxQubits
    /\ input_registers = Register(n_qubits)
    /\ marked_states = <<>>
    /\ solutions = <<>>
    /\ pc = "new"
    /\ raised = "none"
    /\ calls = <<>>
    /\ answer = <<>>

NextLoad == Construct

SpecLoad == InitLoad /\ [][NextLoad]_vars

\* ------------------------------------------------ apply_oracle (lines 49-70)
\* The operations queued on the active circuit context.  The gates' own
\* checks of their arguments belong to the library and are not modelled: the
\* exceptions below are those of the method's own indexing.
Adder(k, x_wires, mod) ==
    [gate |-> "Adder", k |-> k, wires |-> x_wires, control |-> <<>>, mod |-> mod]
PauliX(wire) ==
    [gate |-> "PauliX", k |-> 0, wires |-> <<wire>>, control |-> <<>>, mod |-> 0]
ControlledZ(target, control_wires) ==
    [gate |-> "ControlledZ", k |-> 0, wires |-> <<target>>,
     control |-> control_wires, mod |-> 0]

\* What a piece of the method queued, and the exception that ended it.
Emitted(ops, err) == [ops |-> ops, raised |-> err]

\* The X gates placed where the bit is '1' instead of '0'.
RECURSIVE x_gates_ones(_, _, _)
x_gates_ones(state, i, regs) ==
    IF i > Len(state) THEN Emitted(<<>>, "none")
    ELSE IF state[i] # 49 THEN x_gates_ones(state, i + 1, regs)
    ELSE IF i > Len(regs) THEN Emitted(<<>>, "IndexError")
    ELSE LET rest == x_gates_ones(state, i + 1, regs)
         IN  Emitted(<<PauliX(regs[i])>> \o rest.ops, rest.raised)

\* The X gates with positions past the end of the register passed over.
RECURSIVE x_gates_skipping(_, _, _)
x_gates_skipping(state, i, regs) ==
    IF i > Len(state) \/ i > Len(regs) THEN Emitted(<<>>, "none")
    ELSE IF state[i] # 48 THEN x_gates_skipping(state, i + 1, regs)
    ELSE LET rest == x_gates_skipping(state, i + 1, regs)
         IN  Emitted(<<PauliX(regs[i])>> \o rest.ops, rest.raised)

\* Lines 59-61 and 65-67: for i, bit in enumerate(state), from position i on
\* (positions counted from 1).  input_registers[i] past the end of the list
\* raises IndexError.
RECURSIVE x_gates(_, _, _)
x_gates(state, i, regs) ==
    IF i > Len(state) THEN Emitted(<<>>, "none")
    ELSE IF state[i] # 48 THEN x_gates(state, i + 1, regs)
    ELSE IF i > Len(regs) THEN Emitted(<<>>, "IndexError")
    ELSE LET rest == x_gates(state, i + 1, regs)
         IN  Emitted(<<PauliX(regs[i])>> \o rest.ops, rest.raised)

\* The controlled-Z aimed at the first wire and controlled by the others.
controlled_z_first_wire(regs) ==
    IF Len(regs) = 0 THEN Emitted(<<>>, "IndexError")
    ELSE Emitted(<<ControlledZ(regs[1], SubSeq(regs, 2, Len(regs)))>>, "none")

\* Line 63: input_registers[-1] raises IndexError on an empty list;
\* input_registers[:-1] is every wire but the last.
controlled_z(regs) ==
    IF Len(regs) = 0 THEN Emitted(<<>>, "IndexError")
    ELSE Emitted(<<ControlledZ(regs[Len(regs)], SubSeq(regs, 1, Len(regs) - 1))>>,
                 "none")

\* The loop body without lines 65-67: the X gates are not undone.
mark_state_no_unmask(state, regs) ==
    LET mask == x_gates(state, 1, regs)
    IN  IF mask.raised # "none" THEN mask
        ELSE LET cz == controlled_z(regs)
             IN  Emitted(mask.ops \o cz.ops, cz.raised)

\* Lines 58-67, the body of the loop for one marked state.
mark_state(state, regs) ==
    LET mask == x_gates(state, 1, regs)
    IN  IF mask.raised # "none" THEN mask
        ELSE LET cz == controlled_z(regs)
             IN  IF cz.raised # "none" THEN Emitted(mask.ops, cz.raised)
                 ELSE LET unmask == x_gates(state, 1, regs)
                      IN  Emitted(mask.ops \o cz.ops \o unmask.ops, unmask.raised)

\* Line 57: for state in self.marked_states.
RECURSIVE mark_all(_, _)
mark_all(states, regs) ==
    IF Len(states) = 0 THEN Emitted(<<>>, "none")
    ELSE LET first == mark_state(states[1], regs)
         IN  IF first.raised # "none" THEN first
             ELSE LET rest == mark_all(Tail(states), regs)
                  IN  Emitted(first.ops \o rest.ops, rest.raised)

\* Line 70 adding 1 again instead of subtracting it.
decrement_adding(regs, n) == <<Adder(1, regs, Pow2(n))>>

\* Line 70.
decrement(regs, n) == <<Adder(-1, regs, Pow2(n))>>

\* One call: the increment, the loop, and the decrement unless the loop raised.
apply_oracle(states, regs, n) ==
    LET loop == mark_all(states, regs)
    IN  IF loop.raised # "none"
        THEN Emitted(<<Adder(1, regs, Pow2(n))>> \o loop.ops, loop.raised)
        ELSE Emitted(<<Adder(1, regs, Pow2(n))>> \o loop.ops \o decrement(regs, n),
                     "none")

\* apply_oracle() taking each marked state off the list as it handles it.
ApplyOracle_consuming ==
    /\ pc = "constructed"
    /\ calls' = IF Len(calls) < 2
                THEN Append(calls, apply_oracle(marked_states, input_registers, n_qubits))
                ELSE <<calls[2], apply_oracle(marked_states, input_registers, n_qubits)>>
    /\ marked_states' = <<>>
    /\ UNCHANGED <<written, config_file, input_registers, n_qubits,
                   solutions, pc, raised, answer>>

\* The last two calls are kept: the one before and the latest.
LastTwo(log) == IF Len(log) <= 2 THEN log ELSE SubSeq(log, Len(log) - 1, Len(log))

ApplyOracle ==
    /\ pc = "constructed"
    /\ calls' = LastTwo(Append(calls, apply_oracle(marked_states, input_registers,
                                                   n_qubits)))
    /\ UNCHANGED <<written, config_file, input_registers, n_qubits, marked_states,
                   solutions, pc, raised, answer>>

\* ------------------------------------------------- is_solution (lines 72-83)
\* "".join(bin(i)[2:] for i in x)
RECURSIVE binary_x(_)
binary_x(x) ==
    IF Len(x) = 0 THEN <<>> ELSE SliceFrom2(bin(x[1])) \o binary_x(Tail(x))

\* is_solution comparing the numbers the strings stand for.
is_solution_numeric(x, sols) ==
    IF \E j \in 1..Len(sols) : StringValue(sols[j]) = StringValue(binary_x(x))
    THEN 1 ELSE 0

is_solution(x, sols) == IF binary_x(x) \in Range(sols) THEN 1 ELSE 0

\* The arguments handed to is_solution: a measurement outcome for each wire of
\* input_registers, in their order; and one argument that is no measurement,
\* a single value above every outcome.
Outcomes == [1..Len(input_registers) -> 0..MaxOutcome] \cup {<<MaxOutcome + 1>>}

IsSolution ==
    /\ pc = "constructed"
    /\ \E x \in Outcomes :
           answer' = <<[x |-> x, ret |-> is_solution(x, solutions)]>>
    /\ UNCHANGED <<written, config_file, input_registers, n_qubits, marked_states,
                   solutions, pc, raised, calls>>

\* ------------------------------------------------------------ the oracle
\* Configs as documented: lists of Base64(str(v)); and the missing file.
Documented == {Payload("int", v) : v \in 0..MaxPayload}

\* The solutions are marked payloads: here the first few of the list.
OracleConfigs ==
    {NoJson("missing")}
        \cup UNION {{Json(ms, SubSeq(ms, 1, k)) : k \in 0..Len(ms)} :
                       ms \in SeqUpTo(Documented, MaxStates)}

\* The register is as long as n_qubits, one wire short or one wire over.
Init ==
    /\ written \in OracleConfigs
    /\ config_file = ConfigOf(written)
    /\ n_qubits \in 0..MaxQubits
    /\ \E len \in 0..MaxQubits :
           /\ len \in (n_qubits - 1)..(n_qubits + 1)
           /\ input_registers = Register(len)
    /\ marked_states = <<>>
    /\ solutions = <<>>
    /\ pc = "new"
    /\ raised = "none"
    /\ calls = <<>>
    /\ answer = <<>>

Next == Construct \/ ApplyOracle \/ IsSolution

Spec == Init /\ [][Next]_vars

\* ------------------------------------------- what the queued gates do
\* A register in a computational basis state: the bit of every wire and the
\* sign of the amplitude.  The first wire of a list of wires is the most
\* significant bit, as in the strings of marked_states.
BitOf(r, i, len) == (r \div Pow2(len - i)) % 2

BasisState(regs, r) ==
    [bits |-> [w \in Range(regs) |-> BitOf(r, CHOOSE i \in 1..Len(regs) : regs[i] = w,
                                           Len(regs))],
     sign |-> 1]

RECURSIVE ValueOf(_, _)
ValueOf(bits, wires) ==
    IF Len(wires) = 0 THEN 0
    ELSE 2 * ValueOf(bits, SubSeq(wires, 1, Len(wires) - 1)) + bits[wires[Len(wires)]]

\* qml.Adder(k, x_wires, mod) with mod = 2^len(x_wires): x becomes (x + k) mod mod.
GateAdder(op, q) ==
    LET v == (ValueOf(q.bits, op.wires) + op.k + op.mod) % op.mod
    IN  [q EXCEPT !.bits = [w \in DOMAIN q.bits |->
            IF w \in Range(op.wires)
            THEN BitOf(v, CHOOSE i \in 1..Len(op.wires) : op.wires[i] = w,
                       Len(op.wires))
            ELSE q.bits[w]]]

\* qml.PauliX(wires=w): the bit of w is flipped.
GatePauliX(op, q) == [q EXCEPT !.bits[op.wires[1]] = 1 - @]

\* qml.ControlledQubitUnitary(qml.PauliZ(t), control_wires=c): the sign is
\* flipped when every control wire and the target hold 1.
GateControlledZ(op, q) ==
    IF q.bits[op.wires[1]] = 1 /\ \A i \in 1..Len(op.control) : q.bits[op.control[i]] = 1
    THEN [q EXCEPT !.sign = -@]
    ELSE q

RECURSIVE Run(_, _)
Run(ops, q) ==
    IF Len(ops) = 0 THEN q
    ELSE Run(Tail(ops),
             CASE ops[1].gate = "Adder" -> GateAdder(ops[1], q)
               [] ops[1].gate = "PauliX" -> GatePauliX(ops[1], q)
               [] OTHER -> GateControlledZ(ops[1], q))

\* ================================================================ claims
IsBit(c) == c \in {48, 49}

\* The number of binary digits of v >= 0 (1 for 0).
RECURSIVE BitLength(_)
BitLength(v) == IF v < 2 THEN 1 ELSE 1 + BitLength(v \div 2)

\* v >= 0 in binary, most significant bit first, at least width characters.
Binary(v, width) ==
    LET len == Max(width, BitLength(v))
    IN  [i \in 1..len |-> 48 + BitOf(v, i, len)]

Loaded == pc = "constructed"

\* The decoded lists beside what their author wrote.
DecodedLists == <<<<written.marked_states, marked_states>>,
                  <<written.solutions, solutions>>>>

LatestCall == calls[Len(calls)]

\* The latest apply_oracle() call returned normally.
Returned == Loaded /\ Len(calls) > 0 /\ LatestCall.raised = "none"

\* ---- C1
\* C1 as amended: after a successful construction every string of marked_states
\* and solutions is at least n_qubits long: exactly n_qubits when the payload v
\* has 0 <= v < 2^n_qubits and n_qubits >= 1, and as long as v's own binary
\* form (one digit for 0) when that is wider: nothing is truncated.  It
\* consists of '0' and '1' alone when v >= 0; for v < 0 it holds a 'b' before
\* the digits of |v|.
C1_Length ==
    Loaded =>
        \A l \in 1..2 : \A i \in 1..Len(DecodedLists[l][2]) :
            LET v == DecodedLists[l][1][i].v
                s == DecodedLists[l][2][i]
            IN  /\ v >= 0 => /\ Len(s) = Max(n_qubits, BitLength(v))
                             /\ \A k \in 1..Len(s) : IsBit(s[k])
                /\ (v >= 0 /\ v < Pow2(n_qubits) /\ n_qubits >= 1) => Len(s) = n_qubits
                /\ v < 0 => /\ Len(s) = Max(n_qubits, 1 + BitLength(-v))
                            /\ \E k \in 1..Len(s) : s[k] = 98

\* A payload wider than n_qubits was decoded.
C1_Witness ==
    /\ Loaded
    /\ \E i \in 1..Len(marked_states) :
           written.marked_states[i].v >= Pow2(n_qubits) /\ n_qubits > 0

\* C1 as stated, read for payloads v >= 0 and n_qubits >= 1: every decoded
\* string has length exactly n_qubits and holds only '0' and '1', wider
\* payloads being truncated.
C1_Original ==
    (Loaded /\ n_qubits >= 1) =>
        \A l \in 1..2 : \A i \in 1..Len(DecodedLists[l][2]) :
            DecodedLists[l][1][i].v >= 0 =>
                /\ Len(DecodedLists[l][2][i]) = n_qubits
                /\ \A k \in 1..Len(DecodedLists[l][2][i]) :
                       IsBit(DecodedLists[l][2][i][k])

\* ---- C2
\* C2: an entry Base64(str(v)), v >= 0, decodes to the binary form of v
\* left-padded with '0' to n_qubits characters, and the decoded lists have the
\* length and order of the config's lists.
C2_RoundTrip ==
    Loaded =>
        \A l \in 1..2 :
            /\ Len(DecodedLists[l][2]) = Len(DecodedLists[l][1])
            /\ \A i \in 1..Len(DecodedLists[l][1]) :
                   LET p == DecodedLists[l][1][i]
                   IN  (p.kind = "int" /\ p.v >= 0) =>
                           DecodedLists[l][2][i] = Binary(p.v, n_qubits)

\* A four-digit payload (two Base64 groups) was decoded, and so was a list of
\* two different payloads.
C2_Witness ==
    /\ Loaded
    /\ \/ /\ Len(marked_states) = 1
          /\ written.marked_states[1].v >= 1000
       \/ /\ Len(marked_states) = 2
          /\ written.marked_states[1].kind = "int"
          /\ written.marked_states[2].kind = "int"
          /\ written.marked_states[1].v > written.marked_states[2].v
          /\ written.marked_states[2].v >= 0

\* ---- C3
\* s is the binary representation of v >= 0 (no sign, no leading zero).
IsBinaryOf(s, v) ==
    /\ Len(s) >= 1
    /\ \A k \in 1..Len(s) : IsBit(s[k])
    /\ Len(s) > 1 => s[1] = 49
    /\ StringValue(s) = v

\* s is the binary representations of the elements of x, one after the other.
RECURSIVE IsConcatenation(_, _)
IsConcatenation(s, x) ==
    IF Len(x) = 0 THEN Len(s) = 0
    ELSE \E k \in 1..Len(s) :
             /\ IsBinaryOf(SubSeq(s, 1, k), x[1])
             /\ IsConcatenation(SubSeq(s, k + 1, Len(s)), Tail(x))

\* C3: is_solution(x) returns 1 when the concatenated binary representations
\* of the elements of x are, character for character, one of the strings of
\* solutions, and 0 otherwise; a solution of another length never matches.
C3_ExactMatch ==
    Len(answer) > 0 =>
        LET x == answer[1].x
            ret == answer[1].ret
        IN  /\ ret \in {0, 1}
            /\ ret = 1 <=> \E j \in 1..Len(solutions) : IsConcatenation(solutions[j], x)

\* is_solution returned 0 for an x that is numerically one of the solutions
\* but shorter than it.
C3_Witness ==
    /\ Len(answer) > 0
    /\ answer[1].ret = 0
    /\ Len(answer[1].x) > 0
    /\ \A k \in 1..Len(answer[1].x) : answer[1].x[k] \in {0, 1}
    /\ \E j \in 1..Len(solutions) :
           /\ Len(solutions[j]) > Len(answer[1].x)
           /\ StringValue(solutions[j]) = StringValue([k \in 1..Len(answer[1].x) |->
                                                          48 + answer[1].x[k]])

\* ---- C4
\* The register is as wide as n_qubits and every marked state is a string of
\* n_qubits bits.
WellFormed ==
    /\ Len(input_registers) = n_qubits
    /\ \A j \in 1..Len(marked_states) :
           /\ Len(marked_states[j]) = n_qubits
           /\ \A k \in 1..n_qubits : IsBit(marked_states[j][k])

BasisValues == 0..(Pow2(n_qubits) - 1)

AfterCall(r) == Run(LatestCall.ops, BasisState(input_registers, r))

\* How many entries of marked_states stand for the number m.
TimesMarked(m) ==
    Cardinality({j \in 1..Len(marked_states) : StringValue(marked_states[j]) = m})

\* C4 as amended: on a register in basis state r, one apply_oracle() call
\* flips the sign of exactly the basis states r for which (r + 1) mod
\* 2^n_qubits is a marked state listed an odd number of times: the increment
\* shifts the register before the marking, and a state listed twice is
\* flipped twice.
C4_PhaseFlip ==
    (Returned /\ WellFormed) =>
        \A r \in BasisValues :
            AfterCall(r).sign = -1 <=> TimesMarked((r + 1) % Pow2(n_qubits)) % 2 = 1

\* A call on a two-qubit register with one marked state returned.
C4_Witness ==
    /\ Returned
    /\ WellFormed
    /\ n_qubits = 2
    /\ Len(marked_states) = 1

\* C4 as stated: the sign is flipped for exactly the basis states whose bit
\* string is one of the marked states.
C4_Original ==
    (Returned /\ WellFormed) =>
        \A r \in BasisValues :
            AfterCall(r).sign = -1 <=> \E j \in 1..Len(marked_states) :
                                           StringValue(marked_states[j]) = r

\* ---- C5
\* The positions of marked_states that hold '0'.
ZeroPositions ==
    UNION {{<<j, i>> : i \in {k \in 1..Len(marked_states[j]) : marked_states[j][k] = 48}} :
              j \in 1..Len(marked_states)}

\* C5 as amended: a call that returns emits 2 + len(marked_states) + 2 * z
\* operations, z being the number of '0' characters in marked_states (one
\* PauliX per '0' before the controlled-Z and one after it); with an empty
\* list it emits only the increment and the decrement.
C5_Count ==
    Returned =>
        /\ Len(LatestCall.ops) = 2 + Len(marked_states) + 2 * Cardinality(ZeroPositions)
        /\ Len(marked_states) = 0 =>
               LatestCall.ops = <<Adder(1, input_registers, Pow2(n_qubits)),
                                  Adder(-1, input_registers, Pow2(n_qubits))>>

\* A call returned for a marked state with two '0' characters.
C5_Witness ==
    /\ Returned
    /\ Len(marked_states) = 1
    /\ Cardinality(ZeroPositions) = 2

\* C5 as stated: a call emits 1 + 3 * len(marked_states) + 1 operations.
C5_Original ==
    Returned => Len(LatestCall.ops) = 1 + 3 * Len(marked_states) + 1

\* ---- C6
\* The documented reasons for a config to be refused.
Refused(p) == p.kind \in {"junk", "nopad", "text", "byte255"}

\* The exception an entry ends the decoding with, "none" for one that decodes.
EntryError(p) ==
    CASE p.kind = "nopad" -> "binascii.Error"
      [] p.kind = "text" -> "ValueError"
      [] p.kind = "byte255" -> "UnicodeDecodeError"
      [] OTHER -> "none"

WrittenEntries == written.marked_states \o written.solutions

FailingEntries == {i \in 1..Len(WrittenEntries) : EntryError(WrittenEntries[i]) # "none"}

FirstFailing == CHOOSE i \in FailingEntries : \A k \in FailingEntries : i <= k

\* C6 as amended: construction ends in an error, and sets neither list, when
\* the file is missing (FileNotFoundError), is not JSON (json.JSONDecodeError),
\* or holds an entry whose Base64 data stops short of its padding
\* (binascii.Error), whose bytes are not UTF-8 (UnicodeDecodeError) or whose
\* text is no integer literal (ValueError): the error of the first such entry,
\* marked_states before solutions, and never a ConfigError.  An entry with
\* ASCII characters outside the Base64 alphabet is decoded without them and is
\* not refused for them.
C6_Errors ==
    pc # "new" =>
        /\ raised # "ConfigError"
        /\ pc = "raised" <=> raised # "none"
        /\ pc = "raised" => marked_states = <<>> /\ solutions = <<>>
        /\ written.kind = "missing" => raised = "FileNotFoundError"
        /\ written.kind = "malformed" => raised = "json.JSONDecodeError"
        /\ written.kind = "json" =>
               IF FailingEntries # {}
               THEN raised = EntryError(WrittenEntries[FirstFailing])
               ELSE pc = "constructed"

\* Construction was refused for the second entry of marked_states.
C6_Witness ==
    /\ pc = "raised"
    /\ written.kind = "json"
    /\ FailingEntries # {}
    /\ FirstFailing = 2

\* C6 as stated: a missing file, a file that is not JSON, and an entry that is
\* not valid Base64 or not an integer literal each end construction in
\* ConfigError.
C6_Original ==
    (/\ pc # "new"
     /\ \/ written.kind \in {"missing", "malformed"}
        \/ \E i \in 1..Len(WrittenEntries) : Refused(WrittenEntries[i]))
        => (pc = "raised" /\ raised = "ConfigError")

\* ---- C7
\* Some marked state has a '0' past the end of the register, or the register
\* is empty and there is a state to mark.
IndexOutOfRange ==
    \/ \E p \in ZeroPositions : p[2] > Len(input_registers)
    \/ Len(input_registers) = 0 /\ Len(marked_states) > 0

\* C7 as amended: every wire index apply_oracle() uses, input_registers[i]
\* for each position i where a marked state holds '0' and input_registers[-1],
\* is within the register exactly when the register is not empty (or nothing
\* is marked) and no marked state has a '0' at a position past the end of the
\* register, as when len(input_registers) = n_qubits >= 1 and every payload
\* is below 2^n_qubits; otherwise the call ends in IndexError.
C7_NoError ==
    (Loaded /\ Len(calls) > 0) =>
        /\ LatestCall.raised = (IF IndexOutOfRange THEN "IndexError" ELSE "none")
        /\ (/\ Len(input_registers) = n_qubits
            /\ n_qubits >= 1
            /\ \A j \in 1..Len(marked_states) :
                   written.marked_states[j].v < Pow2(n_qubits))
               => LatestCall.raised = "none"

\* A call returned normally after masking a '0' on a register of n_qubits = 2 wires.
C7_Witness ==
    /\ Returned
    /\ Len(input_registers) = n_qubits
    /\ n_qubits = 2
    /\ Len(marked_states) = 2
    /\ ZeroPositions # {}

\* C7 as stated, read for a register of n_qubits >= 1 wires: after any
\* successful construction apply_oracle() never ends in an error.
C7_Original ==
    (Loaded /\ Len(calls) > 0 /\ Len(input_registers) = n_qubits /\ n_qubits >= 1)
        => LatestCall.raised = "none"

\* ---- C8
\* C8: once the oracle is constructed no call changes input_registers,
\* n_qubits, marked_states or solutions, and a second apply_oracle() call
\* emits what the first emitted.
C8_ReadOnly ==
    [][Loaded =>
          /\ UNCHANGED <<input_registers, n_qubits, marked_states, solutions>>
          /\ Len(calls') = 2 => calls'[1] = calls'[2]]_vars

\* apply_oracle() was called twice and emitted gates, and is_solution was called.
C8_Witness ==
    /\ Len(calls) = 2
    /\ Len(calls[2].ops) > 2
    /\ Len(answer) > 0

\* ---- C9
\* C9: after the whole sequence of one apply_oracle() call the register holds
\* the basis value r it held before.
C9_Restored ==
    (Returned /\ Len(input_registers) = n_qubits) =>
        \A r \in BasisValues :
            ValueOf(AfterCall(r).bits, input_registers) = r

\* A call on two qubits returned after masking a state with a '0'.
C9_Witness ==
    /\ Returned
    /\ Len(input_registers) = n_qubits
    /\ n_qubits = 2
    /\ \E p \in ZeroPositions : TRUE

\* ---- C10
\* The wires input_registers[i] for the positions i where state holds '0', in
\* increasing order of i.
ZeroWires(state) ==
    LET zeros == SelectSeq([i \in 1..Len(state) |-> i], LAMBDA i : state[i] = 48)
    IN  [k \in 1..Len(zeros) |-> PauliX(input_registers[zeros[k]])]

\* X-mask, one controlled-Z on the last wire controlled by all others, X-unmask.
Block(state) ==
    ZeroWires(state)
        \o <<ControlledZ(input_registers[Len(input_registers)],
                         [i \in 1..(Len(input_registers) - 1) |-> input_registers[i]])>>
        \o ZeroWires(state)

RECURSIVE Blocks(_)
Blocks(states) == IF Len(states) = 0 THEN <<>> ELSE Block(states[1]) \o Blocks(Tail(states))

\* Marking this state raises: the register is empty, or the state holds a '0'
\* past the end of the register.
Raises(state) ==
    \/ Len(input_registers) = 0
    \/ \E i \in (Len(input_registers) + 1)..Len(state) : state[i] = 48

FirstRaising ==
    CHOOSE j \in 1..Len(marked_states) :
        /\ Raises(marked_states[j])
        /\ \A k \in 1..(j - 1) : ~Raises(marked_states[k])

\* C10: a call that returns has emitted the increment Adder(+1, mod
\* 2^n_qubits) first, the decrement Adder(-1, mod 2^n_qubits) last, and
\* between them one block per marked state in configuration order, each
\* X-mask, controlled-Z on the last wire controlled by all the others,
\* X-unmask, no two blocks interleaved; a call that raises has emitted the
\* increment, the blocks of the states before the one that raises, and of
\* that one the X gates on the wires the register has.
C10_Order ==
    (Loaded /\ Len(calls) > 0) =>
        IF LatestCall.raised = "none"
        THEN LatestCall.ops =
                 <<Adder(1, input_registers, Pow2(n_qubits))>>
                     \o Blocks(marked_states)
                     \o <<Adder(-1, input_registers, Pow2(n_qubits))>>
        ELSE LatestCall.ops =
                 <<Adder(1, input_registers, Pow2(n_qubits))>>
                     \o Blocks(SubSeq(marked_states, 1, FirstRaising - 1))
                     \o ZeroWires(SubSeq(marked_states[FirstRaising], 1,
                                         Len(input_registers)))

\* A call returned for two different marked states on two qubits.
C10_Witness ==
    /\ Returned
    /\ Len(input_registers) = 2
    /\ Len(marked_states) = 2
    /\ marked_states[1] # marked_states[2]

====
